---- MODULE Spec2Model ----
(***************************************************************************)
(* Relative position index / bias generation of                           *)
(* positional_embedding/rel_pos_embd.py.                                   *)
(*                                                                         *)
(* A tensor is a record [shape |-> <<d1, ..., dn>>, data |-> f] where f is *)
(* the row-major (contiguous) element array, a function on 0..numel-1.     *)
(* A raised exception is a record [raised |-> "<kind>"].                   *)
(***************************************************************************)
EXTENDS Integers, Sequences, FiniteSets, TLC

VARIABLES rpi, rlc, lut, rpb, rpm

vars == <<rpi, rlc, lut, rpb, rpm>>

(* ------------------------------ bounds -------------------------------- *)
MaxH == 3
MaxW == 3
MaxLength == 4
MaxRel == 3
MaxLogWin == 3
MaxPre == 2
MaxModWin == 2
MaxHeads == 2
MaxPrefix == 2
MaxSnapshot == 1
MaxDropped == 1

(* ------------------------- tensor primitives -------------------------- *)
RECURSIVE Numel(_)
Numel(shape) == IF shape = <<>> THEN 1 ELSE Head(shape) * Numel(Tail(shape))

Tensor(shape, f) == [shape |-> shape, data |-> f]

Raise(kind) == [raised |-> kind]

IsTensor(t) == "shape" \in DOMAIN t

IsRaised(t) == "raised" \in DOMAIN t

Dim(t) == Len(t.shape)

Abs(n) == IF n < 0 THEN -n ELSE n

Max2(a, b) == IF a >= b THEN a ELSE b

\* torch.arange(lo, hi): the integers lo .. hi-1
Arange(lo, hi) == Tensor(<<hi - lo>>, [i \in 0..(hi - lo - 1) |-> lo + i])

\* torch.stack(torch.meshgrid([a, b])) with the default "ij" indexing:
\* shape (2, |a|, |b|), plane 0 repeats a along rows, plane 1 repeats b
\* along columns.
StackMeshgrid(a, b) ==
  LET h == a.shape[1]
      w == b.shape[1]
  IN Tensor(<<2, h, w>>,
            [f \in 0..(2 * h * w - 1) |->
               IF f \div (h * w) = 0 THEN a.data[(f % (h * w)) \div w]
                                     ELSE b.data[f % w]])

\* t.flatten(1): merge every dimension after the first
Flatten1(t) == Tensor(<<t.shape[1], Numel(Tail(t.shape))>>, t.data)

\* t.view(shape): same element array, new shape; the element counts must agree
View(t, shape) ==
  IF Numel(shape) = Numel(t.shape) THEN Tensor(shape, t.data)
                                   ELSE Raise("RuntimeError")

\* t.view(-1)
ViewFlat(t) == Tensor(<<Numel(t.shape)>>, t.data)

\* t.view(-1, n)
ViewRows(t, n) == Tensor(<<Numel(t.shape) \div n, n>>, t.data)

\* q[:, :, None] - k[:, None, :] for q of shape (c, A) and k of shape (c, B)
BroadcastSub(q, k) ==
  LET c == q.shape[1]
      A == q.shape[2]
      B == k.shape[2]
  IN Tensor(<<c, A, B>>,
            [f \in 0..(c * A * B - 1) |->
               q.data[(f \div (A * B)) * A + ((f \div B) % A)]
                 - k.data[(f \div (A * B)) * B + (f % B)]])

\* t.permute(p) of a 3-D tensor, materialised (.contiguous()); p lists the
\* source dimension (0-based) of each result dimension.
Permute3(t, p) ==
  LET s == t.shape
      n == <<s[p[1] + 1], s[p[2] + 1], s[p[3] + 1]>>
      src(i) == \* i = <<i0, i1, i2>> result index -> source flat offset
        LET o == [d \in 0..2 |->
                    IF p[1] = d THEN i[1] ELSE IF p[2] = d THEN i[2] ELSE i[3]]
        IN (o[0] * s[2] + o[1]) * s[3] + o[2]
  IN Tensor(n,
            [f \in 0..(Numel(n) - 1) |->
               t.data[src(<<f \div (n[2] * n[3]), (f \div n[3]) % n[2], f % n[3]>>)]])

\* lexicographic order on the rows of a 2-D tensor (row r = elements r*m .. r*m+m-1)
Row(t, r) == [c \in 0..(t.shape[2] - 1) |-> t.data[r * t.shape[2] + c]]

RECURSIVE LexLessFrom(_, _, _, _)
LexLessFrom(u, v, c, m) ==
  IF c >= m THEN FALSE
  ELSE IF u[c] < v[c] THEN TRUE
  ELSE IF u[c] > v[c] THEN FALSE
  ELSE LexLessFrom(u, v, c + 1, m)

RECURSIVE LexLessDownFrom(_, _, _)
\* a slip: the rows compared from their last column to their first, which
\* enumerates the offsets column difference first
LexLessDownFrom(u, v, c) ==
  IF c < 0 THEN FALSE
  ELSE IF u[c] < v[c] THEN TRUE
  ELSE IF u[c] > v[c] THEN FALSE
  ELSE LexLessDownFrom(u, v, c - 1)

LexLessLastColumnFirst(u, v, m) == LexLessDownFrom(u, v, m - 1)

LexLess(u, v, m) == LexLessFrom(u, v, 0, m)

\* torch.unique(t, return_inverse=True, dim=0)[1] for a 2-D tensor t of shape
\* (n, m): the distinct rows are sorted lexicographically and the inverse is
\* a 1-D tensor of n entries, entry r being the position of row r among the
\* sorted distinct rows.
UniqueInverse1D(t) ==
  LET n == t.shape[1]
      m == t.shape[2]
      distinct == {Row(t, r) : r \in 0..(n - 1)}
  IN Tensor(<<n>>,
            [r \in 0..(n - 1) |->
               Cardinality({u \in distinct : LexLess(u, Row(t, r), m)})])

\* a wrong reading of torch.unique: the inverse keeps the reduced dimension,
\* shape (n, 1), so that it is a 2-D tensor
UniqueInverseKeepDim(t) == Tensor(<<t.shape[1], 1>>, UniqueInverse1D(t).data)

TorchUniqueInverse(t) == UniqueInverse1D(t)

\* F.pad(t, [l1, r1, l2, r2]) in constant mode (value 0): l1/r1 pad the last
\* dimension, l2/r2 the one before it. Padding more dimensions than the
\* tensor has is an error.
PadConst(t, l1, r1, l2, r2, zero) ==
  IF Dim(t) < 2 THEN Raise("RuntimeError")
  ELSE
    LET n == Dim(t)
        R == t.shape[n - 1]
        C == t.shape[n]
        R2 == R + l2 + r2
        C2 == C + l1 + r1
        shp == [d \in 1..n |-> IF d = n - 1 THEN R2 ELSE IF d = n THEN C2 ELSE t.shape[d]]
    IN Tensor(shp,
              [f \in 0..(Numel(shp) - 1) |->
                 LET b == f \div (R2 * C2)
                     i == (f \div C2) % R2
                     j == f % C2
                 IN IF i >= l2 /\ i < l2 + R /\ j >= l1 /\ j < l1 + C
                      THEN t.data[(b * R + (i - l2)) * C + (j - l1)]
                      ELSE zero])

\* F.pad on an integer tensor
Pad2(t, l1, r1, l2, r2) == PadConst(t, l1, r1, l2, r2, 0)

\* t[0, 0:] = v on a 2-D tensor
SetRow0(t, v) ==
  Tensor(t.shape, [f \in DOMAIN t.data |-> IF f \div t.shape[2] = 0 THEN v ELSE t.data[f]])

\* t[0:, 0] = v on a 2-D tensor
SetCol0(t, v) ==
  Tensor(t.shape, [f \in DOMAIN t.data |-> IF f % t.shape[2] = 0 THEN v ELSE t.data[f]])

\* t[0, 0] = v on a 2-D tensor
SetCell00(t, v) ==
  Tensor(t.shape, [f \in DOMAIN t.data |-> IF f = 0 THEN v ELSE t.data[f]])

(* -------------------- gen_relative_position_index --------------------- *)
\* an Optional argument: <<>> is None, a size is the pair <<h, w>> and an
\* integer m is <<m>>
None == <<>>

\* the flattened coordinate grid of a window: shape (2, h*w)
Coords(size) == Flatten1(StackMeshgrid(Arange(0, size[1]), Arange(0, size[2])))

\* the class-token overwrites, in the order of the code
ClassTokenFill(padded, num_relative_distance) ==
  SetCell00(SetCol0(SetRow0(padded, num_relative_distance - 3),
                    num_relative_distance - 2),
            num_relative_distance - 1)

gen_relative_position_index(q_size, k_size_arg, class_token) ==
  LET q_coords == Coords(q_size)
      k_coords == IF k_size_arg = None THEN q_coords ELSE Coords(k_size_arg)
      k_size == IF k_size_arg = None THEN q_size ELSE k_size_arg
      relative_coords == Permute3(BroadcastSub(q_coords, k_coords), <<1, 2, 0>>)
      relative_position_index == TorchUniqueInverse(ViewRows(relative_coords, 2))
  IN IF class_token
       THEN LET max_size == <<Max2(q_size[1], k_size[1]), Max2(q_size[2], k_size[2])>>
                num_relative_distance ==
                  (2 * max_size[1] - 1) * (2 * max_size[2] - 1) + 3
                padded == Pad2(relative_position_index, 1, 0, 1, 0)
            IN IF IsRaised(padded) THEN padded
               ELSE ClassTokenFill(padded, num_relative_distance)
       ELSE relative_position_index

(* ------------------ specification: the index function ----------------- *)
Sizes == (1..MaxH) \X (1..MaxW)

Idle == [pc |-> "idle"]

Pending == [pending |-> TRUE]

\* the caller's arguments, before the call runs
IndexCalls ==
  {[pc |-> "call", q_size |-> q, k_size |-> k, class_token |-> c, ret |-> Pending] :
     q \in Sizes, k \in Sizes \cup {None}, c \in BOOLEAN}

Call_gen_relative_position_index ==
  /\ rpi.pc = "call"
  /\ rpi' = [rpi EXCEPT !.pc = "return",
                        !.ret = gen_relative_position_index(rpi.q_size, rpi.k_size,
                                                            rpi.class_token)]
  /\ UNCHANGED <<rlc, lut, rpb, rpm>>

InitIndex ==
  /\ rpi \in IndexCalls
  /\ rlc = Idle
  /\ lut = Idle
  /\ rpb = Idle
  /\ rpm = Idle

NextIndex == Call_gen_relative_position_index

SpecIndex == InitIndex /\ [][NextIndex]_vars

(* ----------------------- claims: index function ----------------------- *)
IndexReturned == rpi.pc = "return"

Area(size) == size[1] * size[2]

NumClasses(size) == (2 * size[1] - 1) * (2 * size[2] - 1)

Values(t) == {t.data[f] : f \in DOMAIN t.data}

\* C1: without k_size and class_token the result is a table of shape
\* (h*w, h*w) whose entries are exactly the values 0 .. (2h-1)(2w-1)-1.
C1_TableShapeAndClasses ==
  (IndexReturned /\ rpi.k_size = None /\ ~rpi.class_token) =>
    /\ IsTensor(rpi.ret)
    /\ rpi.ret.shape = <<Area(rpi.q_size), Area(rpi.q_size)>>
    /\ Values(rpi.ret) = 0..(NumClasses(rpi.q_size) - 1)

\* C2: with class_token the result is a table of shape (h*w+1, h*w+1) with
\* cell [0,0] = vocab-1, the rest of row 0 = vocab-3, the rest of column 0 =
\* vocab-2 and the remaining block equal to the table without class token.
C2_ClassTokenTable ==
  (IndexReturned /\ rpi.k_size = None /\ rpi.class_token) =>
    LET n == Area(rpi.q_size)
        vocab == NumClasses(rpi.q_size) + 3
        plain == gen_relative_position_index(rpi.q_size, None, FALSE)
        t == rpi.ret
    IN /\ IsTensor(t)
       /\ t.shape = <<n + 1, n + 1>>
       /\ \A i \in 0..n, j \in 0..n :
            t.data[i * (n + 1) + j] =
              IF i = 0 /\ j = 0 THEN vocab - 1
              ELSE IF i = 0 THEN vocab - 3
              ELSE IF j = 0 THEN vocab - 2
              ELSE plain.data[(i - 1) * n + (j - 1)]

Zeros(shape) == Tensor(shape, [f \in 0..(Numel(shape) - 1) |-> 0])

\* t[i, x, v] = val on a 3-D tensor
Set3(t, i, x, v, val) ==
  Tensor(t.shape, [t.data EXCEPT ![(i * t.shape[2] + x) * t.shape[3] + v] = val])

LookupV(x, i, max_relative_position) == x - i + max_relative_position

\* a slip: the offset max_relative_position itself is clipped too
ClippedInclusive(x, i, max_relative_position) == Abs(x - i) >= max_relative_position

\* the guard of the `continue`: the offset is out of range
Clipped(x, i, max_relative_position) == Abs(x - i) > max_relative_position

\* the Optional[int] values over S
OptInts(S) == {None} \cup {<<m>> : m \in S}

LookupCalls ==
  {[pc |-> "call", length |-> n, arg |-> m] :
     n \in 1..MaxLength, m \in OptInts(0..MaxRel)}

\* entry: the default of max_relative_position, vocab_size, the zero tensor
lookup_Enter ==
  /\ lut.pc = "call"
  /\ LET m == IF lut.arg = None THEN lut.length - 1 ELSE lut.arg[1]
         vocab_size == 2 * m + 1
     IN lut' = [pc |-> "loop", length |-> lut.length, arg |-> lut.arg,
                max_relative_position |-> m, vocab_size |-> vocab_size,
                i |-> 0, x |-> 0,
                ret |-> Zeros(<<lut.length, lut.length, vocab_size>>)]
  /\ UNCHANGED <<rpi, rlc, rpb, rpm>>

\* the loop counters after one pass of the inner loop body
LookupAdvance(l) ==
  IF l.x + 1 < l.length THEN [l EXCEPT !.x = l.x + 1]
                        ELSE [l EXCEPT !.x = 0, !.i = l.i + 1]

\* one pass of the body that takes the `continue`
lookup_Skip ==
  /\ lut.pc = "loop"
  /\ lut.i < lut.length
  /\ Clipped(lut.x, lut.i, lut.max_relative_position)
  /\ lut' = LookupAdvance(lut)
  /\ UNCHANGED <<rpi, rlc, rpb, rpm>>

\* one pass of the body that sets ret[i, x, v] = 1
lookup_Set ==
  /\ lut.pc = "loop"
  /\ lut.i < lut.length
  /\ ~Clipped(lut.x, lut.i, lut.max_relative_position)
  /\ lut' = LookupAdvance(
              [lut EXCEPT !.ret = Set3(lut.ret, lut.i, lut.x,
                                       LookupV(lut.x, lut.i, lut.max_relative_position),
                                       1)])
  /\ UNCHANGED <<rpi, rlc, rpb, rpm>>

lookup_Return ==
  /\ lut.pc = "loop"
  /\ lut.i = lut.length
  /\ lut' = [lut EXCEPT !.pc = "return"]
  /\ UNCHANGED <<rpi, rlc, rpb, rpm>>

InitLookup ==
  /\ rpi = Idle
  /\ rlc = Idle
  /\ lut \in LookupCalls
  /\ rpb = Idle
  /\ rpm = Idle

NextLookup == lookup_Enter \/ lookup_Skip \/ lookup_Set \/ lookup_Return

SpecLookup == InitLookup /\ [][NextLookup]_vars

(* ------------------------ claims: lookup tensor ----------------------- *)
\* element [i, x, v] of a 3-D tensor
At3(t, i, x, v) == t.data[(i * t.shape[2] + x) * t.shape[3] + v]

RECURSIVE SumRange(_, _, _)
\* data[lo] + ... + data[hi], summed by halves
SumRange(data, lo, hi) ==
  IF lo > hi THEN 0
  ELSE IF lo = hi THEN data[lo]
  ELSE LET mid == (lo + hi) \div 2
       IN SumRange(data, lo, mid) + SumRange(data, mid + 1, hi)

SliceSum(t, i, x) ==
  SumRange([v \in 0..(t.shape[3] - 1) |-> At3(t, i, x, v)], 0, t.shape[3] - 1)

\* C4: the returned tensor has shape (length, length, 2m+1), ret[i,x,v] = 1
\* exactly when |x-i| <= m and v = x-i+m and 0 otherwise, every slice
\* ret[i,x,:] sums to 0 or 1, and the whole tensor sums to length*length
\* minus the number of pairs with |x-i| > m (m = length-1 by default).
C4_LookupTensor ==
  lut.pc = "return" =>
    LET n == lut.length
        m == IF lut.arg = None THEN n - 1 ELSE lut.arg[1]
        t == lut.ret
    IN /\ t.shape = <<n, n, 2 * m + 1>>
       /\ \A i \in 0..(n - 1), x \in 0..(n - 1), v \in 0..(2 * m) :
            At3(t, i, x, v) = IF Abs(x - i) <= m /\ v = x - i + m THEN 1 ELSE 0
       /\ \A i \in 0..(n - 1), x \in 0..(n - 1) : SliceSum(t, i, x) \in {0, 1}
       /\ SumRange(t.data, 0, Numel(t.shape) - 1) =
            n * n - Cardinality({p \in (0..(n - 1)) \X (0..(n - 1)) : Abs(p[2] - p[1]) > m})

\* a call that clips some pairs and keeps others has returned
C4_Witness ==
  /\ lut.pc = "return"
  /\ lut.length = 3
  /\ lut.arg = <<1>>
  /\ SliceSum(lut.ret, 0, 2) = 0
  /\ At3(lut.ret, 1, 2, 2) = 1

(* ----------------------- gen_relative_log_coords ---------------------- *)
(* float32 values are kept exact: a finite value is the rational num/den   *)
(* (den > 0), a division by zero gives NaN (0/0) or a signed infinity, and  *)
(* the log-squashed value sgn * log(num/den) / div is kept as its argument. *)
RECURSIVE Gcd(_, _)
Gcd(a, b) == IF b = 0 THEN a ELSE Gcd(b, a % b)

\* the rational n/d in lowest terms
Fin(n, d) ==
  LET g == Gcd(Abs(n), d)
  IN [k |-> "fin", num |-> n \div g, den |-> d \div g]

NaN == [k |-> "nan"]

Inf(s) == [k |-> "inf", sgn |-> s]

Sign(n) == IF n > 0 THEN 1 ELSE IF n < 0 THEN -1 ELSE 0

\* x / n for an integer n, IEEE-754: 0/0 = NaN, d/0 = +-inf
FDiv(x, n) ==
  IF x.k = "nan" THEN NaN
  ELSE IF x.k = "inf" THEN (IF n = 0 THEN x ELSE Inf(x.sgn * Sign(n)))
  ELSE IF n = 0 THEN (IF x.num = 0 THEN NaN ELSE Inf(Sign(x.num)))
  ELSE Fin(x.num * Sign(n), x.den * Abs(n))

\* x * c for an integer c > 0
FMul(x, c) == IF x.k = "fin" THEN Fin(x.num * c, x.den) ELSE x

\* math.log2(8)
Log2Of8 == 3

\* the factor of `relative_coords_table *= 8`
SwinScale == 8

\* sign(x) * log2(1 + |x|) / math.log2(8); the value is
\* sgn * log2(num/den) / div
SwinSquash(x) ==
  IF x.k = "nan" THEN NaN
  ELSE IF x.k = "inf" THEN x
  ELSE [k |-> "log2", sgn |-> Sign(x.num), num |-> x.den + Abs(x.num),
        den |-> x.den, div |-> Log2Of8]

\* sign(x) * log(1 + |x|); the value is sgn * ln(num/den)
CrSquash(x) ==
  IF x.k = "nan" THEN NaN
  ELSE IF x.k = "inf" THEN x
  ELSE [k |-> "ln", sgn |-> Sign(x.num), num |-> x.den + Abs(x.num),
        den |-> x.den, div |-> 1]

\* torch.arange(lo, hi, dtype=torch.float32)
ArangeF(lo, hi) == Tensor(<<hi - lo>>, [i \in 0..(hi - lo - 1) |-> Fin(lo + i, 1)])

\* t[:, :, c] /= n on a 3-D tensor
DivChannel(t, c, n) ==
  Tensor(t.shape,
         [i \in DOMAIN t.data |->
            IF i % t.shape[3] = c THEN FDiv(t.data[i], n) ELSE t.data[i]])

\* a slip: the axis is divided by its size instead of size - 1
SwinDenominatorOffByOne(size) == size

\* the divisor of the "swin" normalisation on one axis
SwinDenominator(size) == size - 1

SwinNormalize(table, win_size, pretrained_win_size) ==
  IF pretrained_win_size[1] > 0
    THEN DivChannel(DivChannel(table, 0, SwinDenominator(pretrained_win_size[1])),
                    1, SwinDenominator(pretrained_win_size[2]))
    ELSE DivChannel(DivChannel(table, 0, SwinDenominator(win_size[1])),
                    1, SwinDenominator(win_size[2]))

\* relative_coords_table *= 8
MulScale(t) == Tensor(t.shape, [i \in DOMAIN t.data |-> FMul(t.data[i], SwinScale)])

\* the "swin" log squash of every element
SwinSquashAll(t) == Tensor(t.shape, [i \in DOMAIN t.data |-> SwinSquash(t.data[i])])

\* the "cr" log squash of every element
CrSquashAll(t) == Tensor(t.shape, [i \in DOMAIN t.data |-> CrSquash(t.data[i])])

gen_relative_log_coords(win_size, pretrained_win_size, mode) ==
  IF mode \notin {"swin", "cr"} THEN Raise("AssertionError")
  ELSE
    LET relative_coords_h == ArangeF(-(win_size[1] - 1), win_size[1])
        relative_coords_w == ArangeF(-(win_size[2] - 1), win_size[2])
        relative_coords_table ==
          Permute3(StackMeshgrid(relative_coords_h, relative_coords_w), <<1, 2, 0>>)
    IN IF mode = "swin"
         THEN SwinSquashAll(MulScale(SwinNormalize(relative_coords_table, win_size,
                                                   pretrained_win_size)))
         ELSE CrSquashAll(relative_coords_table)

Modes == {"swin", "cr", "rw"}

LogWinSizes == (1..MaxLogWin) \X (1..MaxLogWin)

PretrainedSizes == (0..MaxPre) \X (0..MaxPre)

LogCoordCalls ==
  {[pc |-> "call", win_size |-> s, pretrained_win_size |-> p, mode |-> m,
    ret |-> Pending] : s \in LogWinSizes, p \in PretrainedSizes, m \in Modes}

Call_gen_relative_log_coords ==
  /\ rlc.pc = "call"
  /\ rlc' = [rlc EXCEPT !.pc = "return",
                        !.ret = gen_relative_log_coords(rlc.win_size,
                                                        rlc.pretrained_win_size,
                                                        rlc.mode)]
  /\ UNCHANGED <<rpi, lut, rpb, rpm>>

InitLogCoords ==
  /\ rpi = Idle
  /\ rlc \in LogCoordCalls
  /\ lut = Idle
  /\ rpb = Idle
  /\ rpm = Idle

NextLogCoords == Call_gen_relative_log_coords

SpecLogCoords == InitLogCoords /\ [][NextLogCoords]_vars

(* ---------------------- claims: log coordinates ----------------------- *)
\* the size whose "- 1" divides an axis, as the claim words it
ReferenceSize(win_size, pretrained_win_size) ==
  IF pretrained_win_size[1] > 0 /\ pretrained_win_size[2] > 0
    THEN pretrained_win_size ELSE win_size

\* C7: when the reference size of the normalisation is 1 on either axis,
\* the call fails with an error instead of dividing by zero and returning a
\* grid.
C7_DivisionByZeroGuarded ==
  (/\ rlc.pc = "return"
   /\ rlc.mode = "swin"
   /\ 1 \in {ReferenceSize(rlc.win_size, rlc.pretrained_win_size)[a] : a \in 1..2}) =>
    IsRaised(rlc.ret)

\* |v| <= log2(c) / log2(8) for a log-squashed value v: log2(num/den) <= log2(c)
MagnitudeAtMostLog2(v, c) ==
  /\ v.k = "log2"
  /\ v.div = Log2Of8
  /\ v.sgn = 0 \/ v.num <= c * v.den

SwinUnset ==
  /\ rlc.pc = "return"
  /\ rlc.mode = "swin"
  /\ rlc.pretrained_win_size = <<0, 0>>
  /\ rlc.win_size[1] >= 2
  /\ rlc.win_size[2] >= 2

\* C8 as stated: every "swin" coordinate is within [-1, 1] = [-log2(8)/log2(8), ...]
\* for windows with h, w >= 2 and no pretrained window size.
C8_SwinWithinUnitInterval ==
  SwinUnset =>
    /\ IsTensor(rlc.ret)
    /\ \A i \in DOMAIN rlc.ret.data : MagnitudeAtMostLog2(rlc.ret.data[i], 8)

\* C8 as amended: every "swin" coordinate has magnitude at most
\* log2(9)/log2(8), and the corner offsets d = +-(size-1) reach that value.
C8_SwinWithinLog9 ==
  SwinUnset =>
    /\ IsTensor(rlc.ret)
    /\ rlc.ret.shape = <<2 * rlc.win_size[1] - 1, 2 * rlc.win_size[2] - 1, 2>>
    /\ \A i \in DOMAIN rlc.ret.data : MagnitudeAtMostLog2(rlc.ret.data[i], 9)
    /\ \A i \in {0, 1, Numel(rlc.ret.shape) - 2, Numel(rlc.ret.shape) - 1} :
         ~MagnitudeAtMostLog2(rlc.ret.data[i], 8)
         /\ rlc.ret.data[i].num = 9 * rlc.ret.data[i].den

C8_Witness ==
  /\ SwinUnset
  /\ rlc.win_size = <<2, 3>>
  /\ IsTensor(rlc.ret)
  /\ rlc.ret.data[0] = [k |-> "log2", sgn |-> -1, num |-> 9, den |-> 1, div |-> 3]

(* ------------------------ tensor helpers, modules --------------------- *)
\* t[idx] for a 2-D tensor t and a 1-D integer tensor idx: the rows of t
\* picked by idx; an index outside the rows of t is an IndexError
IndexRows(t, idx) ==
  LET n == idx.shape[1]
      m == t.shape[2]
  IN IF \E r \in DOMAIN idx.data : idx.data[r] \notin 0..(t.shape[1] - 1)
       THEN Raise("IndexError")
       ELSE Tensor(<<n, m>>,
                   [f \in 0..(n * m - 1) |-> t.data[idx.data[f \div m] * m + (f % m)]])

\* t.unsqueeze(0)
Unsqueeze0(t) == Tensor(<<1>> \o t.shape, t.data)

(* ------------------------------ RelPosBias ---------------------------- *)
\* trunc_normal_(tensor, std=.02) and the later optimizer updates: the
\* learned values are one of a bounded family of parameter snapshots; within
\* a snapshot the entries are pairwise different, and two snapshots differ
\* in every entry.
ParamSnapshot(shape, snapshot) ==
  Tensor(shape, [f \in 0..(Numel(shape) - 1) |-> (snapshot + 1) * 1000 + f])

RelPosBiasArgs ==
  {[pc |-> "new", window_size |-> s, num_heads |-> h, prefix_tokens |-> p] :
     s \in (1..MaxModWin) \X (1..MaxModWin), h \in 1..MaxHeads, p \in 0..MaxPrefix}

RelPosBias_init ==
  /\ rpb.pc = "new"
  /\ LET   snapshot == 0
           window_size == rpb.window_size
           num_heads == rpb.num_heads
           prefix_tokens == rpb.prefix_tokens
           window_area == window_size[1] * window_size[2]
           num_relative_distance ==
             (2 * window_size[1] - 1) * (2 * window_size[2] - 1) + 3 * prefix_tokens
           index == gen_relative_position_index(window_size, None, prefix_tokens > 0)
       IN IF ~(prefix_tokens <= 1)
            THEN rpb' = [rpb EXCEPT !.pc = "raised"] @@ [error |-> Raise("AssertionError")]
          ELSE IF IsRaised(index)
            THEN rpb' = [rpb EXCEPT !.pc = "raised"] @@ [error |-> index]
          ELSE rpb' = [pc |-> "ready",
                       window_size |-> window_size,
                       num_heads |-> num_heads,
                       prefix_tokens |-> prefix_tokens,
                       window_area |-> window_area,
                       bias_shape |-> <<window_area + prefix_tokens,
                                        window_area + prefix_tokens, num_heads>>,
                       relative_position_bias_table |->
                         ParamSnapshot(<<num_relative_distance, num_heads>>, snapshot),
                       snapshot |-> snapshot,
                       relative_position_index |-> index,
                       out |-> Pending,
                       prev |-> Pending,
                       repeat |-> FALSE]
  /\ UNCHANGED <<rpi, rlc, lut, rpm>>

\* .permute(2, 0, 1)
BiasPermute(t) == Permute3(t, <<2, 0, 1>>)

RelPosBias_get_bias_value(self) ==
  LET gathered == IndexRows(self.relative_position_bias_table,
                            ViewFlat(self.relative_position_index))
  IN IF IsRaised(gathered) THEN gathered
     ELSE LET viewed == View(gathered, self.bias_shape)
          IN IF IsRaised(viewed) THEN viewed
             ELSE Unsqueeze0(BiasPermute(viewed))

\* get_bias(): out and prev are the returns of the last two calls made since
\* the parameters (or the training mode) last changed, and `repeat` says
\* that there were two such calls
RelPosBias_get_bias ==
  /\ rpb.pc = "ready"
  /\ rpb' = [rpb EXCEPT !.out = RelPosBias_get_bias_value(rpb),
                        !.prev = rpb.out,
                        !.repeat = (rpb.out # Pending)]
  /\ UNCHANGED <<rpi, rlc, lut, rpm>>

\* the external optimizer writes new values into the bias table
RelPosBias_OptimizerStep ==
  /\ rpb.pc = "ready"
  /\ rpb.snapshot < MaxSnapshot
  /\ rpb' = [rpb EXCEPT !.relative_position_bias_table =
                         ParamSnapshot(rpb.relative_position_bias_table.shape,
                                       rpb.snapshot + 1),
                       !.snapshot = rpb.snapshot + 1,
                       !.out = Pending,
                       !.prev = Pending,
                       !.repeat = FALSE]
  /\ UNCHANGED <<rpi, rlc, lut, rpm>>

(* ------------------------------ RelPosMlp ----------------------------- *)
\* the dropout probability of the hidden layer, drop=(0.125, 0.0), in 1/1000
DropPermille == 125

\* the default of hidden_dim
HiddenDimDefault == 256

\* bias_gain of the "swin" mode
SwinBiasGain == 16

\* LinearMLP(2, hidden, num_heads, ReLU, bias, drop): linear -> ReLU ->
\* dropout -> linear, applied to every cell of the grid x of shape
\* (G0, G1, 2). The value it gives for a cell and a head is kept as the
\* application itself: the parameter snapshot, the cell's two coordinates,
\* the head, the hidden units dropout zeroes for that cell (none outside
\* training, or when the probability is 0) and whether the layers add a bias.
LinearMLP(mlp, x, training, dropmask) ==
  LET cells == x.shape[1] * x.shape[2]
      heads == mlp.out_features
  IN Tensor(<<x.shape[1], x.shape[2], heads>>,
            [f \in 0..(cells * heads - 1) |->
               LET cell == f \div heads
               IN [k |-> "mlp",
                   snapshot |-> mlp.snapshot,
                   x |-> <<x.data[2 * cell], x.data[2 * cell + 1]>>,
                   head |-> f % heads,
                   dropped |-> IF training /\ mlp.drop > 0
                                 THEN {e[2] : e \in {d \in dropmask : d[1] = cell}}
                                 ELSE {},
                   bias |-> mlp.bias]])

\* nn.Sigmoid() on one element
Sigmoid(v) == [k |-> "sigmoid", of |-> v]

\* nn.Identity() on one element
Identity(v) == v

\* self.bias_act applied to a tensor
BiasAct(self, t) ==
  Tensor(t.shape,
         [i \in DOMAIN t.data |->
            IF self.bias_act = "Sigmoid" THEN Sigmoid(t.data[i]) ELSE Identity(t.data[i])])

\* bias_gain * v on one element
Gain(v) == IF v.k = "fin" THEN FMul(v, SwinBiasGain)
                          ELSE [k |-> "mul", by |-> SwinBiasGain, of |-> v]

\* self.bias_gain * t when bias_gain is not None
BiasGain(self, t) ==
  IF self.bias_gain # None
    THEN Tensor(t.shape, [i \in DOMAIN t.data |-> Gain(t.data[i])])
    ELSE t

\* the float 0.0 that F.pad fills with
FZero == Fin(0, 1)

RelPosMlpArgs ==
  {[pc |-> "new", window_size |-> s, num_heads |-> h, hidden_dim |-> d,
    prefix_tokens |-> p, mode |-> m, pretrained_window_size |-> q] :
     s \in (1..MaxModWin) \X (1..MaxModWin), h \in 1..MaxHeads,
     d \in {HiddenDimDefault}, p \in 0..MaxPrefix, m \in Modes,
     q \in {<<0, 0>>, <<2, 2>>}}

RelPosMlp_init ==
  /\ rpm.pc = "new"
  /\ LET   snapshot == 0
           window_size == rpm.window_size
           window_area == window_size[1] * window_size[2]
           index == gen_relative_position_index(window_size, None, FALSE)
           coords == gen_relative_log_coords(window_size, rpm.pretrained_window_size,
                                             rpm.mode)
       IN IF IsRaised(index)
            THEN rpm' = [rpm EXCEPT !.pc = "raised"] @@ [error |-> index]
          ELSE IF IsRaised(coords)
            THEN rpm' = [rpm EXCEPT !.pc = "raised"] @@ [error |-> coords]
          ELSE rpm' = [pc |-> "ready",
                       window_size |-> window_size,
                       window_area |-> window_area,
                       prefix_tokens |-> rpm.prefix_tokens,
                       num_heads |-> rpm.num_heads,
                       bias_shape |-> <<window_area, window_area, rpm.num_heads>>,
                       mode |-> rpm.mode,
                       pretrained_window_size |-> rpm.pretrained_window_size,
                       bias_act |-> IF rpm.mode = "swin" THEN "Sigmoid" ELSE "Identity",
                       bias_gain |-> IF rpm.mode = "swin" THEN <<SwinBiasGain>> ELSE None,
                       mlp |-> [hidden_features |-> rpm.hidden_dim,
                                out_features |-> rpm.num_heads,
                                bias |-> IF rpm.mode = "swin" THEN <<TRUE, FALSE>>
                                                              ELSE <<TRUE, TRUE>>,
                                drop |-> DropPermille,
                                snapshot |-> snapshot],
                       training |-> TRUE,
                       relative_position_index |-> index,
                       rel_coords_log |-> coords,
                       dropmask |-> {},
                       out |-> Pending,
                       prev |-> Pending,
                       repeat |-> FALSE]
  /\ UNCHANGED <<rpi, rlc, lut, rpb>>

\* the zero padding of the prefix tokens
PrefixPad(self, t) ==
  IF self.prefix_tokens # 0
    THEN PadConst(t, self.prefix_tokens, 0, self.prefix_tokens, 0, FZero)
    ELSE t

\* a slip: the padding applied before the activation and the gain
PadThenActivationGain(self, t) == BiasGain(self, BiasAct(self, PrefixPad(self, t)))

\* the activation, the gain, then the zero padding of the prefix tokens
ActivationGainPad(self, t) == PrefixPad(self, BiasGain(self, BiasAct(self, t)))

\* a slip: the projection evaluated with dropout active whatever the mode
RelPosMlp_get_bias_always_training(self, dropmask) ==
  LET projected == LinearMLP(self.mlp, self.rel_coords_log, TRUE, dropmask)
      gathered == IndexRows(ViewRows(projected, self.num_heads),
                            ViewFlat(self.relative_position_index))
  IN IF IsRaised(gathered) THEN gathered
     ELSE LET viewed == View(gathered, self.bias_shape)
          IN IF IsRaised(viewed) THEN viewed
             ELSE Unsqueeze0(ActivationGainPad(self, BiasPermute(viewed)))

RelPosMlp_get_bias_value(self, dropmask) ==
  LET projected == LinearMLP(self.mlp, self.rel_coords_log, self.training, dropmask)
      gathered == IndexRows(ViewRows(projected, self.num_heads),
                            ViewFlat(self.relative_position_index))
  IN IF IsRaised(gathered) THEN gathered
     ELSE LET viewed == View(gathered, self.bias_shape)
          IN IF IsRaised(viewed) THEN viewed
             ELSE Unsqueeze0(ActivationGainPad(self, BiasPermute(viewed)))

\* the hidden activations (cell, unit) dropout may zero in one call: any
\* subset of the first MaxDropped activations of the hidden layer; every
\* activation after them is kept
DropMasks(self) ==
  LET hidden == self.mlp.hidden_features
      total == (Numel(self.rel_coords_log.shape) \div 2) * hidden
      n == IF total < MaxDropped THEN total ELSE MaxDropped
  IN SUBSET {<<e \div hidden, e % hidden>> : e \in 0..(n - 1)}

\* get_bias(): the dropout layer draws a fresh mask in every call
RelPosMlp_get_bias ==
  /\ rpm.pc = "ready"
  /\ \E dropmask \in DropMasks(rpm) :
       rpm' = [rpm EXCEPT !.out = RelPosMlp_get_bias_value(rpm, dropmask),
                          !.dropmask = dropmask,
                          !.prev = rpm.out,
                          !.repeat = (rpm.out # Pending)]
  /\ UNCHANGED <<rpi, rlc, lut, rpb>>

\* nn.Module.train(mode): train() and eval()
RelPosMlp_train ==
  /\ rpm.pc = "ready"
  /\ \E mode \in BOOLEAN :
       /\ mode # rpm.training
       /\ rpm' = [rpm EXCEPT !.training = mode,
                             !.out = Pending,
                             !.prev = Pending,
                             !.repeat = FALSE]
  /\ UNCHANGED <<rpi, rlc, lut, rpb>>

\* the external optimizer writes new values into the projection's parameters
RelPosMlp_OptimizerStep ==
  /\ rpm.pc = "ready"
  /\ rpm.mlp.snapshot < MaxSnapshot
  /\ rpm' = [rpm EXCEPT !.mlp.snapshot = rpm.mlp.snapshot + 1,
                       !.out = Pending,
                       !.prev = Pending,
                       !.repeat = FALSE]
  /\ UNCHANGED <<rpi, rlc, lut, rpb>>

InitModules ==
  /\ rpi = Idle
  /\ rlc = Idle
  /\ lut = Idle
  /\ \/ rpb \in RelPosBiasArgs /\ rpm = Idle
     \/ rpb = Idle /\ rpm \in RelPosMlpArgs

NextModules ==
  \/ RelPosBias_init
  \/ RelPosBias_get_bias
  \/ RelPosBias_OptimizerStep
  \/ RelPosMlp_init
  \/ RelPosMlp_get_bias
  \/ RelPosMlp_train
  \/ RelPosMlp_OptimizerStep

SpecModules == InitModules /\ [][NextModules]_vars

(* --------------------------- claims: modules -------------------------- *)
\* element [0, k, i, j] of a 4-D tensor
At4(t, k, i, j) == t.data[(k * t.shape[3] + i) * t.shape[4] + j]

\* the (row, column) of position a of a window
CoordOf(a, size) == <<a \div size[2], a % size[2]>>

\* the log coordinate the elementwise transform gives one raw offset d
LogCoordOf(d, size, pretrained, mode, given) ==
  IF mode = "swin"
    THEN SwinSquash(FMul(FDiv(Fin(d, 1),
                              SwinDenominator(IF given THEN pretrained ELSE size)),
                         SwinScale))
    ELSE CrSquash(Fin(d, 1))

\* the grid cell of the offset (drow, dcol)
OffsetCell(self, drow, dcol) ==
  LET given == self.pretrained_window_size[1] > 0
  IN <<LogCoordOf(drow, self.window_size[1], self.pretrained_window_size[1],
                  self.mode, given),
       LogCoordOf(dcol, self.window_size[2], self.pretrained_window_size[2],
                  self.mode, given)>>

RECURSIVE ProjectionOf(_)
\* the projection output an output element was computed from
ProjectionOf(v) == IF v.k \in {"mul", "sigmoid"} THEN ProjectionOf(v.of) ELSE v

\* C3: the index of a pair of positions is (drow + h - 1)*(2w - 1) +
\* (dcol + w - 1) for their coordinate difference (drow, dcol), so it depends
\* on the difference only and enumerates the differences in ascending (row,
\* column) order; and the entry get_bias gathers for the pair is the
\* projection of the grid cell of the offset (drow, dcol).
C3_IndexIsOffsetRank ==
  rpm.pc = "ready" =>
    LET h == rpm.window_size[1]
        w == rpm.window_size[2]
        n == h * w
        p == rpm.prefix_tokens
        index == ViewFlat(rpm.relative_position_index)
    IN \A a \in 0..(n - 1), b \in 0..(n - 1) :
         LET drow == CoordOf(a, rpm.window_size)[1] - CoordOf(b, rpm.window_size)[1]
             dcol == CoordOf(a, rpm.window_size)[2] - CoordOf(b, rpm.window_size)[2]
         IN /\ index.data[a * n + b] = (drow + h - 1) * (2 * w - 1) + (dcol + w - 1)
            /\ rpm.out # Pending =>
                 /\ IsTensor(rpm.out)
                 /\ \A k \in 0..(rpm.num_heads - 1) :
                      /\ ProjectionOf(At4(rpm.out, k, p + a, p + b)).x
                           = OffsetCell(rpm, drow, dcol)
                      /\ ProjectionOf(At4(rpm.out, k, p + a, p + b)).head = k

\* a 2x2 window in "cr" mode has answered get_bias
C3_Witness ==
  /\ rpm.pc = "ready"
  /\ rpm.window_size = <<2, 2>>
  /\ rpm.mode = "cr"
  /\ IsTensor(rpm.out)
  /\ ViewFlat(rpm.relative_position_index).data[0 * 4 + 3] = 0
  /\ ViewFlat(rpm.relative_position_index).data[3 * 4 + 0] = 8

C9_GetBiasGathersTable ==
  (rpb.pc \in {"ready", "raised"} /\ rpb.prefix_tokens \in {0, 1}) =>
    /\ rpb.pc = "ready"
    /\ LET n == rpb.window_size[1] * rpb.window_size[2] + rpb.prefix_tokens
           vocab == NumClasses(rpb.window_size) + 3 * rpb.prefix_tokens
           index == ViewFlat(rpb.relative_position_index)
           table == rpb.relative_position_bias_table
       IN /\ Values(index) \subseteq 0..(vocab - 1)
          /\ table.shape = <<vocab, rpb.num_heads>>
          /\ rpb.out # Pending =>
               /\ IsTensor(rpb.out)
               /\ rpb.out.shape = <<1, rpb.num_heads, n, n>>
               /\ \A k \in 0..(rpb.num_heads - 1), i \in 0..(n - 1), j \in 0..(n - 1) :
                    At4(rpb.out, k, i, j)
                      = table.data[index.data[i * n + j] * rpb.num_heads + k]

\* C10: with prefix_tokens = p > 0 the continuous variant returns a tensor of
\* shape (1, num_heads, h*w + p, h*w + p) whose first p rows and columns are
\* exactly 0 and whose remaining block is the bias of the same instance (same
\* parameters, same dropout draw) with prefix_tokens = 0.
C10_PrefixRowsAreZero ==
  (rpm.pc = "ready" /\ rpm.prefix_tokens > 0 /\ rpm.out # Pending) =>
    LET p == rpm.prefix_tokens
        n == rpm.window_size[1] * rpm.window_size[2]
        plain == RelPosMlp_get_bias_value([rpm EXCEPT !.prefix_tokens = 0], rpm.dropmask)
    IN /\ rpm.mode \in {"swin", "cr"}
       /\ IsTensor(rpm.out)
       /\ rpm.out.shape = <<1, rpm.num_heads, n + p, n + p>>
       /\ plain.shape = <<1, rpm.num_heads, n, n>>
       /\ \A k \in 0..(rpm.num_heads - 1), i \in 0..(n + p - 1), j \in 0..(n + p - 1) :
            At4(rpm.out, k, i, j) =
              IF i < p \/ j < p THEN FZero ELSE At4(plain, k, i - p, j - p)

C10_Witness ==
  /\ rpm.pc = "ready"
  /\ rpm.prefix_tokens = 2
  /\ rpm.mode = "swin"
  /\ rpm.window_size = <<2, 2>>
  /\ IsTensor(rpm.out)
  /\ At4(rpm.out, 0, 1, 3) = FZero
  /\ At4(rpm.out, 0, 2, 2).k = "mul"

====
